---- MODULE Spec2Model ----
(***************************************************************************)
(* A model of polly_q.py: the batch text-to-speech generator.              *)
(*                                                                         *)
(* Spec        : main() -> generate_speech_from_file() -> generate_speech()*)
(*               one step per input line (the body of the for loop).       *)
(* SpecDataset : generate_speech_dataset(), one step per dataset row.      *)
(*                                                                         *)
(* The environment (the remote service, the file system, the wall clock)   *)
(* is a nondeterministic choice at each step.  Times are in milliseconds,  *)
(* as int(time.time() * 1000) is.                                          *)
(***************************************************************************)
EXTENDS Integers, Sequences, FiniteSets

VARIABLES
    argc,           \* len(sys.argv)
    pc,             \* "main" | "makedirs" | "open" | "loop" | "exit"
    exit_code,      \* -1 while running, else the process exit status
    cause,          \* why the process ended ("" while running)
    AWS_REGIONS,    \* the endpoint registry, a sequence of region names
    read,           \* the input lines consumed so far: "blank" | "text"
    count,          \* generate_speech_from_file: count
    region_index,   \* generate_speech_from_file: region_index
    region_count,   \* generate_speech_from_file: region_count
    last_ts,        \* generate_speech_from_file: last_ts
    now,            \* the wall clock, what int(time.time()*1000) last was
    window,         \* number of times the rotation cursor was reset
    last_wrap,      \* the most recent pass through the wrap branch
    files,          \* output files on disk holding a complete audio payload
    requests,       \* the calls of generate_speech made so far, in order
    abnormal,       \* blank lines, raising calls and silent responses so far
    ds              \* the state of generate_speech_dataset (SpecDataset)

vars == <<argc, pc, exit_code, cause, AWS_REGIONS, read, count, region_index,
          region_count, last_ts, now, window, last_wrap, files, requests,
          abnormal, ds>>

fileVars == <<argc, pc, exit_code, cause, AWS_REGIONS, read, count,
              region_index, region_count, last_ts, now, window, last_wrap,
              files, requests, abnormal>>

----------------------------------------------------------------------------
(* Bounds of the model. *)

MaxLines == 17       \* input lines per run
MaxAbnormal == 2     \* blank lines, raising calls and responses without an
                     \* AudioStream per run, taken together
MaxRegions == 2      \* the registry has 0..MaxRegions endpoints
MaxBack == 1         \* the wall clock steps back at most this far per reading
MaxFwd == 1          \* ... and forward at most this far
MaxRows == 3         \* rows in the dataset file
MaxSamples == 2      \* num_samples is in 0..MaxSamples

(* Program constants. *)

Budget == 8          \* int(region_count / 8)
MinWindow == 1       \* current_ts - last_ts < 1.0
ArgCount == 5        \* len(sys.argv) != 5

AllRegions == <<"us-east-1", "us-west-2", "ca-central-1", "eu-west-1">>

LanguageCode == "es-ES"

ClockSteps == {0 - MaxBack, 0, MaxFwd}

----------------------------------------------------------------------------
(* f'{count:04d}': the decimal digits of count, zero-padded to width 4. *)

RECURSIVE Digits(_)
Digits(n) == IF n < 10 THEN <<n>> ELSE Digits(n \div 10) \o <<n % 10>>

RECURSIVE ZeroPad(_, _)
ZeroPad(s, w) == IF Len(s) >= w THEN s ELSE ZeroPad(<<0>> \o s, w)

Format04d(n) == ZeroPad(Digits(n), 4)

(* os.path.join(output_dir, f'speech_{language_code}_{count:04d}.mp3') *)
OutputFile(c) == <<"speech", LanguageCode, Format04d(c), "mp3">>

----------------------------------------------------------------------------
(* The endpoint rotation of generate_speech_from_file. *)

(* region_index = int(region_count / 8) *)
RegionIndexOf(rc) == rc \div Budget

(* The comparison of line 173 written with > : the cursor is reset one     *)
(* endpoint too late.                                                      *)
WindowExhaustedLate(ri, n) == ri > n

(* if (region_index >= len(AWS_REGIONS)) *)
WindowExhausted(ri, n) == ri >= n

(* if (current_ts - last_ts < 1.0) *)
DelayNeeded(diff) == diff < MinWindow

(* time.sleep(current_ts - last_ts + 0.1): the argument is in seconds,     *)
(* the difference it is built from in milliseconds.                        *)
SleepMs(diff) == 1000 * diff + 100

(* time.sleep raises ValueError on a negative argument. *)
SleepRaises(diff) == SleepMs(diff) < 0

(* Lines 172-180 with the clock reading current_ts = now + d.  The result  *)
(* holds the cursor after the branch, or raised = TRUE when time.sleep     *)
(* raised before the cursor was reset.                                     *)
Rotate(d) ==
    LET ri == RegionIndexOf(region_count)
        current_ts == now + d
        diff == current_ts - last_ts
    IN  IF ~WindowExhausted(ri, Len(AWS_REGIONS))
        THEN [wrapped |-> FALSE, raised |-> FALSE, region_index |-> ri,
              region_count |-> region_count, last_ts |-> last_ts,
              now |-> now, elapsed |-> 0, slept |-> 0]
        ELSE IF DelayNeeded(diff) /\ SleepRaises(diff)
        THEN [wrapped |-> TRUE, raised |-> TRUE, region_index |-> ri,
              region_count |-> region_count, last_ts |-> last_ts,
              now |-> current_ts, elapsed |-> diff, slept |-> 0]
        ELSE LET ms == IF DelayNeeded(diff) THEN SleepMs(diff) ELSE 0
             IN  [wrapped |-> TRUE, raised |-> FALSE, region_index |-> 0,
                  region_count |-> 0, last_ts |-> current_ts,
                  now |-> current_ts + ms, elapsed |-> diff, slept |-> ms]

----------------------------------------------------------------------------
(* generate_speech: what the remote call and the file write can do. *)

Outcomes == {"audio", "no_audio", "error"}

(* Whether generate_speech raises: BotoCoreError/ClientError and IOError   *)
(* are re-raised; a response without "AudioStream" returns normally.       *)
Raises(outcome) == outcome = "error"

(* The complete audio files on disk after generate_speech(output_file=f): *)
(*   audio    : response['AudioStream'].read() is written to f             *)
(*   no_audio : "AudioStream" not in response, nothing is written          *)
(*   error    : synthesize_speech raised BotoCoreError or ClientError, or  *)
(*              opening or writing f raised IOError: f holds no complete   *)
(*              payload                                                    *)
FilesAfter(f, outcome) ==
    IF outcome = "audio" THEN files \cup {f} ELSE files

(* Lines 194-195 left out: the counters never advance. *)
CountAfterNoIncrement(c, outcome) == c

(* count += 1 / region_count += 1 after generate_speech returned. *)
CountAfter(c, outcome) == IF Raises(outcome) THEN c ELSE c + 1

----------------------------------------------------------------------------
(* main() *)

(* Line 234 left out: main prints the error and returns. *)
ExitStatusSwallowed(propagated) == 0

(* sys.exit(1) in the except clause of main; falling off the end is 0. *)
ExitStatus(propagated) == IF propagated THEN 1 ELSE 0

Exit(why, status) ==
    /\ pc' = "exit"
    /\ cause' = why
    /\ exit_code' = status


NoDataset == [pc |-> "off", rows |-> <<>>, num_samples |-> 0,
              language_code |-> "", row |-> 0, count |-> 0, sent |-> <<>>,
              failed |-> 0]

Init ==
    /\ argc \in {ArgCount - 1, ArgCount}
    /\ pc = "main"
    /\ exit_code = -1
    /\ cause = ""
    /\ AWS_REGIONS \in {SubSeq(AllRegions, 1, n) : n \in 0..MaxRegions}
    /\ read = <<>>
    /\ count = 0
    /\ region_index = 0
    /\ region_count = 0
    /\ last_ts = 0
    /\ now = 0
    /\ window = 0
    /\ last_wrap = [wrapped |-> FALSE, raised |-> FALSE, elapsed |-> 0, slept |-> 0]
    /\ files = {}
    /\ requests = <<>>
    /\ abnormal = 0
    /\ ds = NoDataset

(* Lines 215-218: the argument count. *)
Main ==
    /\ pc = "main"
    /\ \/ /\ argc # ArgCount
          /\ Exit("usage", 1)
       \/ /\ argc = ArgCount
          /\ pc' = "makedirs"
          /\ UNCHANGED <<cause, exit_code>>
    /\ UNCHANGED <<argc, AWS_REGIONS, read, count, region_index, region_count,
                   last_ts, now, window, last_wrap, files, requests, abnormal, ds>>

(* Lines 157-163: os.makedirs is outside the function's try, so its error  *)
(* reaches main's except; then the locals are set and the clock is read.   *)
MakeDirs ==
    /\ pc = "makedirs"
    /\ \/ /\ Exit("makedirs", ExitStatus(TRUE))
          /\ UNCHANGED <<count, region_index, region_count, last_ts>>
       \/ /\ pc' = "open"
          /\ count' = 0
          /\ region_index' = 0
          /\ region_count' = 0
          /\ last_ts' = now
          /\ UNCHANGED <<cause, exit_code>>
    /\ UNCHANGED <<argc, AWS_REGIONS, read, now, window, last_wrap, files,
                   requests, abnormal, ds>>

(* Line 165: open(input_file); a failure is re-raised at line 205. *)
OpenInput ==
    /\ pc = "open"
    /\ \/ Exit("open", ExitStatus(TRUE))
       \/ /\ pc' = "loop"
          /\ UNCHANGED <<cause, exit_code>>
    /\ UNCHANGED <<argc, AWS_REGIONS, read, count, region_index, region_count,
                   last_ts, now, window, last_wrap, files, requests, abnormal, ds>>

(* Line 166: reading the next line raises (an I/O or decoding error). *)
ReadError ==
    /\ pc = "loop"
    /\ Exit("read", ExitStatus(TRUE))
    /\ UNCHANGED <<argc, AWS_REGIONS, read, count, region_index, region_count,
                   last_ts, now, window, last_wrap, files, requests, abnormal, ds>>

(* Lines 201, then main returns: the input is exhausted. *)
EndOfInput ==
    /\ pc = "loop"
    /\ Exit("eof", ExitStatus(FALSE))
    /\ UNCHANGED <<argc, AWS_REGIONS, read, count, region_index, region_count,
                   last_ts, now, window, last_wrap, files, requests, abnormal, ds>>

(* Lines 167-169: a line that is empty after strip(). *)
BlankLine ==
    /\ pc = "loop"
    /\ Len(read) < MaxLines
    /\ abnormal < MaxAbnormal
    /\ read' = Append(read, "blank")
    /\ abnormal' = abnormal + 1
    /\ UNCHANGED <<argc, pc, exit_code, cause, AWS_REGIONS, count, region_index,
                   region_count, last_ts, now, window, last_wrap, files,
                   requests, ds>>

WrapRecord(r) ==
    IF r.wrapped
    THEN [wrapped |-> TRUE, raised |-> r.raised, elapsed |-> r.elapsed,
          slept |-> r.slept]
    ELSE last_wrap

(* Lines 171-177 and 203-205: a non-blank line whose wrap branch calls     *)
(* time.sleep with a negative argument; the ValueError is outside the      *)
(* inner try, is re-raised by the outer one and ends the run.              *)
SleepValueError ==
    /\ pc = "loop"
    /\ Len(read) < MaxLines
    /\ \E d \in ClockSteps :
          LET r == Rotate(d)
          IN  /\ r.raised
              /\ read' = Append(read, "text")
              /\ region_index' = r.region_index
              /\ now' = r.now
              /\ last_wrap' = WrapRecord(r)
              /\ Exit("sleep", ExitStatus(TRUE))
    /\ UNCHANGED <<argc, AWS_REGIONS, count, region_count, last_ts, window,
                   files, requests, abnormal, ds>>

(* Lines 171-199 with an empty registry slot: AWS_REGIONS[region_index]    *)
(* raises IndexError while the arguments of the call are evaluated, inside *)
(* the inner try; it is printed and the loop continues.                    *)
RegistryIndexError ==
    /\ pc = "loop"
    /\ Len(read) < MaxLines
    /\ \E d \in ClockSteps :
          LET r == Rotate(d)
          IN  /\ ~r.raised
              /\ r.region_index >= Len(AWS_REGIONS)
              /\ read' = Append(read, "text")
              /\ region_index' = r.region_index
              /\ region_count' = r.region_count
              /\ last_ts' = r.last_ts
              /\ now' = r.now
              /\ window' = IF r.wrapped THEN window + 1 ELSE window
              /\ last_wrap' = WrapRecord(r)
    /\ UNCHANGED <<argc, pc, exit_code, cause, AWS_REGIONS, count, files,
                   requests, abnormal, ds>>

(* Lines 171-199: a non-blank line that reaches generate_speech. *)
Dispatch ==
    /\ pc = "loop"
    /\ Len(read) < MaxLines
    /\ \E d \in ClockSteps, outcome \in Outcomes :
          LET r == Rotate(d)
              f == OutputFile(count)
              w == IF r.wrapped THEN window + 1 ELSE window
          IN  /\ ~r.raised
              /\ r.region_index < Len(AWS_REGIONS)
              /\ outcome # "audio" => abnormal < MaxAbnormal
              /\ abnormal' = IF outcome = "audio" THEN abnormal ELSE abnormal + 1
              /\ read' = Append(read, "text")
              /\ requests' = Append(requests,
                    [line |-> Len(read) + 1, output_file |-> f,
                     region |-> r.region_index,
                     region_count |-> r.region_count, window |-> w,
                     result |-> outcome])
              /\ files' = FilesAfter(f, outcome)
              /\ count' = CountAfter(count, outcome)
              /\ region_count' = CountAfter(r.region_count, outcome)
              /\ region_index' = r.region_index
              /\ last_ts' = r.last_ts
              /\ now' = r.now
              /\ window' = w
              /\ last_wrap' = WrapRecord(r)
    /\ UNCHANGED <<argc, pc, exit_code, cause, AWS_REGIONS, ds>>

Next ==
    \/ Main
    \/ MakeDirs
    \/ OpenInput
    \/ ReadError
    \/ EndOfInput
    \/ BlankLine
    \/ SleepValueError
    \/ RegistryIndexError
    \/ Dispatch

Spec == Init /\ [][Next]_vars

----------------------------------------------------------------------------
(* generate_speech_dataset *)

TAB == "\t"

Whitespace == {" ", TAB, "\n"}

(* str.strip(): leading and trailing whitespace removed. *)
RECURSIVE LStrip(_)
LStrip(s) ==
    IF s # <<>> /\ Head(s) \in Whitespace THEN LStrip(Tail(s)) ELSE s

RECURSIVE RStrip(_)
RStrip(s) ==
    IF s # <<>> /\ s[Len(s)] \in Whitespace
    THEN RStrip(SubSeq(s, 1, Len(s) - 1))
    ELSE s

Strip(s) == RStrip(LStrip(s))

(* str.split('\t'): the fields between the tabs, empty ones kept. *)
RECURSIVE SplitTab(_)
SplitTab(s) ==
    IF \A i \in DOMAIN s : s[i] # TAB
    THEN <<s>>
    ELSE LET i == CHOOSE k \in DOMAIN s :
                      s[k] = TAB /\ \A j \in 1..(k - 1) : s[j] # TAB
         IN  <<SubSeq(s, 1, i - 1)>> \o SplitTab(SubSeq(s, i + 1, Len(s)))

(* parts = line.strip().split('\t') *)
Parts(line) == SplitTab(Strip(line))

(* The keys of voice_map in generate_speech_dataset. *)
VoiceMapKeys == {"es-ES", "fr-FR", "de-DE", "it-IT", "pt-PT", "hi-IN"}

(* The names bound at module level in polly_q.py, and the names assigned   *)
(* in generate_speech_dataset: a name in neither (nor a builtin) raises    *)
(* NameError when it is read.                                              *)
ModuleGlobals == {"os", "time", "boto3", "BotoCoreError", "ClientError",
                  "AWS_REGIONS", "POLLY_CLIENTS", "AWS_VOICE_MAP",
                  "generate_speech", "generate_speech_dataset",
                  "generate_speech_from_file", "main"}

DatasetLocals == {"language_code", "dataset_path", "output_dir",
                  "num_samples", "voice_map", "voice_id", "count", "file",
                  "line", "parts", "target_text", "output_file", "e"}

NameDefined(name) == name \in DatasetLocals \cup ModuleGlobals

(* Rows of a dataset file (each without its line end). *)
RowSamples == {
    <<>>,
    <<"a">>,
    <<"a", TAB, "b">>,
    <<TAB, "b">>,
    <<"a", TAB>>,
    <<" ", "a", TAB, "b", " ">>,
    <<"a", TAB, "b", TAB, "c">> }

RECURSIVE SeqsUpTo(_, _)
SeqsUpTo(S, n) ==
    IF n = 0 THEN {<<>>}
    ELSE LET shorter == SeqsUpTo(S, n - 1)
         IN  shorter \cup {Append(q, x) : q \in shorter, x \in S}

InitDataset ==
    /\ argc = 0
    /\ pc = "off"
    /\ exit_code = -1
    /\ cause = ""
    /\ AWS_REGIONS = AllRegions
    /\ read = <<>>
    /\ count = 0
    /\ region_index = 0
    /\ region_count = 0
    /\ last_ts = 0
    /\ now = 0
    /\ window = 0
    /\ last_wrap = [wrapped |-> FALSE, raised |-> FALSE, elapsed |-> 0, slept |-> 0]
    /\ files = {}
    /\ requests = <<>>
    /\ abnormal = 0
    /\ \E rows \in SeqsUpTo(RowSamples, MaxRows), n \in 0..MaxSamples,
          lang \in {"es-ES", "en-US"} :
          ds = [pc |-> "start", rows |-> rows, num_samples |-> n,
                language_code |-> lang, row |-> 0, count |-> 0,
                sent |-> <<>>, failed |-> 0]

(* Lines 92-109: os.makedirs, then the language code is looked up. *)
DsStart ==
    /\ ds.pc = "start"
    /\ \/ ds' = [ds EXCEPT !.pc = "makedirs_error"]
       \/ /\ ds.language_code \notin VoiceMapKeys
          /\ ds' = [ds EXCEPT !.pc = "value_error"]
       \/ /\ ds.language_code \in VoiceMapKeys
          /\ ds' = [ds EXCEPT !.pc = "open", !.count = 0]
    /\ UNCHANGED fileVars

(* Line 112: open(dataset_path); a failure is re-raised at line 143. *)
DsOpen ==
    /\ ds.pc = "open"
    /\ \/ ds' = [ds EXCEPT !.pc = "read_error"]
       \/ ds' = [ds EXCEPT !.pc = "loop"]
    /\ UNCHANGED fileVars

(* Lines 114-115: the sample bound is reached. *)
DsBreak ==
    /\ ds.pc = "loop"
    /\ ds.row < Len(ds.rows)
    /\ ds.count >= ds.num_samples
    /\ ds' = [ds EXCEPT !.pc = "done"]
    /\ UNCHANGED fileVars

(* Lines 117-137: one row.  The call at lines 126-132 reads the name       *)
(* engine while its arguments are evaluated, inside the try.               *)
DsRow ==
    /\ ds.pc = "loop"
    /\ ds.row < Len(ds.rows)
    /\ ds.count < ds.num_samples
    /\ LET parts == Parts(ds.rows[ds.row + 1])
       IN  IF Len(parts) < 2
           THEN ds' = [ds EXCEPT !.row = @ + 1]
           ELSE IF ~NameDefined("engine")
           THEN ds' = [ds EXCEPT !.row = @ + 1, !.failed = @ + 1]
           ELSE \E outcome \in Outcomes :
                   ds' = [ds EXCEPT !.row = @ + 1,
                                    !.sent = Append(@, parts[2]),
                                    !.count = CountAfter(@, outcome)]
    /\ UNCHANGED fileVars

(* Line 139: the rows are exhausted. *)
DsEnd ==
    /\ ds.pc = "loop"
    /\ ds.row = Len(ds.rows)
    /\ ds' = [ds EXCEPT !.pc = "done"]
    /\ UNCHANGED fileVars

NextDataset ==
    \/ DsStart
    \/ DsOpen
    \/ DsBreak
    \/ DsRow
    \/ DsEnd

SpecDataset == InitDataset /\ [][NextDataset]_vars

----------------------------------------------------------------------------
(* Properties of generate_speech_from_file and main (Spec). *)

Registry == Len(AWS_REGIONS)

TextLines == {i \in DOMAIN read : read[i] = "text"}

SetupFailures == {"usage", "makedirs", "open", "read"}

IsAudio(r) == r.result = "audio"

(* The requests answered with an audio payload. *)
NumAudio == Cardinality({i \in DOMAIN requests : IsAudio(requests[i])})

(* The requests whose audio was written, in order. *)
Written == SelectSeq(requests, IsAudio)

(* Requests issued to endpoint r in window w. *)
IssuedIn(w, r) ==
    Cardinality({i \in DOMAIN requests :
                    requests[i].window = w /\ requests[i].region = r})

(* C1: with a non-empty registry, each non-blank line read is dispatched   *)
(* to generate_speech exactly once and in input order, and a run that got  *)
(* past its setup and could read its input ends at the end of the input.   *)
C1_EveryLineDispatchedOnce ==
    Registry >= 1 =>
        /\ Len(requests) = Cardinality(TextLines)
        /\ \A i \in DOMAIN requests : requests[i].line \in TextLines
        /\ \A i, j \in DOMAIN requests :
              i < j => requests[i].line < requests[j].line
        /\ (pc = "exit" /\ cause \notin SetupFailures) => cause = "eof"

(* C2: at the end of a run the number of audio files on disk equals the    *)
(* number of requests answered with an audio payload, and count, the       *)
(* number reported, equals that number of files.                           *)
C2_FilesEqualSuccesses ==
    (pc = "exit" /\ cause = "eof") =>
        /\ Cardinality(files) = NumAudio
        /\ count = Cardinality(files)

(* C3: blank lines make no request, and the k-th line whose audio was      *)
(* written (from 0) is in the file with index k: no gaps.                  *)
C3_IndicesContiguous ==
    /\ \A i \in DOMAIN requests : read[requests[i].line] = "text"
    /\ \A k \in DOMAIN Written : Written[k].output_file = OutputFile(k - 1)
    /\ files = {OutputFile(k - 1) : k \in DOMAIN Written}

(* C4, as stated: no two dispatched requests, failed or not, are assigned  *)
(* the same output path.                                                   *)
C4_AllPathsDistinct ==
    \A i, j \in DOMAIN requests :
        i < j => requests[i].output_file # requests[j].output_file

(* C4, amended: no two requests that return without raising are assigned   *)
(* the same output path; a request that raises leaves its path to the      *)
(* next request dispatched.                                                *)
C4_CompletedPathsDistinct ==
    /\ \A i, j \in DOMAIN requests :
          (i < j /\ ~Raises(requests[i].result) /\ ~Raises(requests[j].result))
              => requests[i].output_file # requests[j].output_file
    /\ \A i \in DOMAIN requests :
          (Raises(requests[i].result) /\ i + 1 \in DOMAIN requests)
              => requests[i + 1].output_file = requests[i].output_file

(* A raising request followed by a completed one on the same path, after   *)
(* an earlier completed request.                                           *)
C4_Witness ==
    \E i \in DOMAIN requests :
        /\ i > 1
        /\ i + 1 \in DOMAIN requests
        /\ ~Raises(requests[i - 1].result)
        /\ Raises(requests[i].result)
        /\ requests[i + 1].result = "audio"
        /\ requests[i + 1].output_file = requests[i].output_file

(* C5: with a non-empty registry no endpoint is issued more than Budget    *)
(* requests in one window, and in each window the cursor has closed every  *)
(* endpoint was issued exactly Budget requests.                            *)
C5_BudgetPerEndpoint ==
    Registry >= 1 =>
        \A w \in 0..window, r \in 0..(Registry - 1) :
            /\ IssuedIn(w, r) <= Budget
            /\ w < window => IssuedIn(w, r) = Budget

(* C6: with an empty registry the run ends with a non-zero status at the   *)
(* first non-blank line, before any call of generate_speech.               *)
C6_EmptyRegistryFailsFast ==
    (Registry = 0 /\ TextLines # {}) =>
        /\ pc = "exit"
        /\ exit_code # 0
        /\ Cardinality(TextLines) = 1
        /\ requests = <<>>

(* C7: at every wrap the cursor is reset; when the time elapsed since the  *)
(* window started is below MinWindow the caller was blocked for at least   *)
(* the remaining time, and otherwise not at all.                           *)
C7_WrapDelay ==
    (Registry >= 1 /\ last_wrap.wrapped) =>
        /\ ~last_wrap.raised
        /\ last_wrap.elapsed < MinWindow
              => last_wrap.slept >= MinWindow - last_wrap.elapsed
        /\ last_wrap.elapsed >= MinWindow => last_wrap.slept = 0

(* C8: the process exits non-zero when the argument count is wrong, the    *)
(* output directory cannot be made or the input cannot be opened or read,  *)
(* and exits zero when the input was read to its end, whatever the         *)
(* requests did.                                                           *)
C8_ExitStatus ==
    /\ pc # "exit" => exit_code = -1
    /\ pc = "exit" =>
          /\ cause \in SetupFailures => exit_code # 0
          /\ cause = "eof" => exit_code = 0

(* The input was read to its end, every request raised, the status is 0. *)
C8_Witness ==
    /\ pc = "exit"
    /\ cause = "eof"
    /\ exit_code = 0
    /\ Len(requests) >= 2
    /\ \A i \in DOMAIN requests : Raises(requests[i].result)

(* C10: with a non-empty registry the region index left by every line and  *)
(* used by every request is an index of the registry, and the one used is  *)
(* floor(region_count / Budget);                                           *)
(* region_count never exceeds Budget * len(AWS_REGIONS); and a request     *)
(* that raises leaves region_count and count as they were, so the next     *)
(* request goes to the same endpoint.                                      *)
C10_RegionIndex ==
    Registry >= 1 =>
        /\ pc = "loop" => region_index \in 0..(Registry - 1)
        /\ region_count \in 0..(Budget * Registry)
        /\ \A i \in DOMAIN requests :
              /\ requests[i].region \in 0..(Registry - 1)
              /\ requests[i].region * Budget <= requests[i].region_count
              /\ requests[i].region_count < (requests[i].region + 1) * Budget
        /\ \A i \in DOMAIN requests :
              (Raises(requests[i].result) /\ i + 1 \in DOMAIN requests) =>
                  /\ requests[i + 1].region = requests[i].region
                  /\ requests[i + 1].region_count = requests[i].region_count
                  /\ requests[i + 1].output_file = requests[i].output_file
        /\ (requests # <<>> /\ Raises(requests[Len(requests)].result)) =>
              /\ region_count = requests[Len(requests)].region_count
              /\ OutputFile(count) = requests[Len(requests)].output_file

(* After a wrap, a request to the first endpoint raised and the next       *)
(* request went to the same endpoint.                                      *)
C10_Witness ==
    /\ Registry >= 1
    /\ window >= 1
    /\ \E i \in DOMAIN requests :
          /\ requests[i].window >= 1
          /\ Raises(requests[i].result)
          /\ i + 1 \in DOMAIN requests
          /\ requests[i + 1].region = requests[i].region

----------------------------------------------------------------------------
(* Properties of generate_speech_dataset (SpecDataset). *)

IsRow(row) == Len(Parts(row)) >= 2

(* Rows of the dataset with two or more columns. *)
UsableRows == Cardinality({i \in DOMAIN ds.rows : IsRow(ds.rows[i])})

(* C9: for a supported language code only second columns of rows with two  *)
(* or more columns are sent, count never exceeds num_samples, and a run    *)
(* over a dataset with at least num_samples such rows in which no remote   *)
(* call failed ends with count = num_samples.                              *)
C9_DatasetSamples ==
    /\ \A k \in DOMAIN ds.sent :
          \E i \in DOMAIN ds.rows :
              IsRow(ds.rows[i]) /\ ds.sent[k] = Parts(ds.rows[i])[2]
    /\ ds.count <= ds.num_samples
    /\ (ds.pc = "done" /\ UsableRows >= ds.num_samples)
          => ds.count = ds.num_samples

====
